---- MODULE Spec2Model ----
(***************************************************************************)
(* Ingestion-to-retrieval pipeline of the document assistant backend:      *)
(* type detection and extraction (backend/document_processor.py), the      *)
(* embedding store (backend/embedding.py), answer generation               *)
(* (backend/model.py) and the two HTTP handlers with their background      *)
(* tasks (backend/main.py).                                                *)
(*                                                                         *)
(* Texts are sequences over the alphabet {"a","b"}; they hold no separator *)
(* characters, so the text splitter works on its character-level path.     *)
(* Python's None and the empty list/string are both falsy in the `x or y`  *)
(* and `if x` tests of the source; both are written <<>> here.             *)
(***************************************************************************)
EXTENDS Integers, Sequences, FiniteSets, TLC

\* ---------------------------------------------------------------- bounds
MaxTasks == 2        \* files queued by all batch uploads together
MaxDirect == 2       \* direct calls of store_embeddings
MaxTopK == 2         \* largest top_k of a direct search_embeddings call
ChunkSize == 3       \* chunk_size of the splitter, scaled down from 1000
ChunkOverlap == 1    \* chunk_overlap of the splitter, scaled down from 200

\* ------------------------------------------------------ program constants
DefaultTopK == 5
StatusError == 500
StatusOk == 200

document_storage_path == "data/documents"

\* ----------------------------------------------------------------- inputs
Filenames == {"a.txt", "b.pdf"}

\* Byte payloads.  mime: what libmagic reports for the bytes; valid: whether
\* the bytes parse under the extractor they are handed to (PDF structure,
\* image decoding, UTF-8 decoding); text: the text that extraction yields
\* (for a PDF, the text of its single page); tables: the tables a table
\* reader finds in the bytes, each a sequence of rows, possibly empty.
ContentTable ==
  << [mime |-> "text/plain",      valid |-> TRUE,  text |-> <<"a","b","a","b">>,
      tables |-> <<>>],
     [mime |-> "application/pdf", valid |-> TRUE,  text |-> <<"b","a">>,
      tables |-> << <<"row">>, <<>> >>],
     [mime |-> "image/png",       valid |-> TRUE,  text |-> <<>>, tables |-> <<>>],
     [mime |-> "application/vnd.openxmlformats-officedocument.spreadsheetml.sheet",
                                  valid |-> FALSE, text |-> <<>>, tables |-> <<>>],
     [mime |-> "application/octet-stream", valid |-> FALSE, text |-> <<>>,
      tables |-> <<>>],
     [mime |-> "text/html",       valid |-> TRUE,  text |-> <<"b">>, tables |-> <<>>] >>

Contents == { ContentTable[i] : i \in DOMAIN ContentTable }

HashHex == << "h1", "h2", "h3", "h4", "h5", "h6" >>

\* Faults the environment can inject into one ingestion.
IngestFaults == {"none", "write", "read", "extract", "tables", "embed", "add"}
\* Faults the environment can inject into answer generation.
GenFaults == {"none", "context", "prompt", "llm"}

Queries == { <<"a">>, <<"a","b">> }
ChunkTexts == { <<"a">>, <<"b">> }
\* Document identities handed to store_embeddings by a direct caller.
UniqueIds == { <<>>, << "doc" >> }

Range(s) == { s[i] : i \in DOMAIN s }

\* --------------------------------------------- backend/document_processor
DocumentType == [PDF |-> "pdf", IMAGE |-> "image", TEXT |-> "text", EXCEL |-> "excel"]

\* A table that does not know the spreadsheet signature.
type_mapping_no_excel ==
  [m \in {"application/pdf", "image/png", "image/jpeg", "text/plain"} |->
     CASE m = "application/pdf" -> DocumentType.PDF
       [] m = "image/png"       -> DocumentType.IMAGE
       [] m = "image/jpeg"      -> DocumentType.IMAGE
       [] OTHER                 -> DocumentType.TEXT]

type_mapping ==
  [m \in {"application/pdf", "image/png", "image/jpeg", "text/plain",
          "application/vnd.openxmlformats-officedocument.spreadsheetml.sheet"} |->
     CASE m = "application/pdf" -> DocumentType.PDF
       [] m = "image/png"       -> DocumentType.IMAGE
       [] m = "image/jpeg"      -> DocumentType.IMAGE
       [] m = "text/plain"      -> DocumentType.TEXT
       [] OTHER                 -> DocumentType.EXCEL]

\* Detection that trusts the extension of the file name.
detect_by_extension(path, content, readFails) ==
  IF readFails
  THEN [ok |-> FALSE, error |-> "Failed to detect document type", kind |-> "none"]
  ELSE [ok |-> TRUE, error |-> "none",
        kind |-> IF path[Len(path)] = "b.pdf" THEN DocumentType.PDF
                 ELSE DocumentType.TEXT]

\* detect_document_type: MIME sniffing of the content; the path plays no part.
detect_document_type(path, content, readFails) ==
  IF readFails
  THEN [ok |-> FALSE, error |-> "Failed to detect document type", kind |-> "none"]
  ELSE [ok |-> TRUE, error |-> "none",
        kind |-> IF content.mime \in DOMAIN type_mapping
                 THEN type_mapping[content.mime]
                 ELSE DocumentType.TEXT]

\* RecursiveCharacterTextSplitter on a text without separators: windows of
\* ChunkSize characters, each starting ChunkSize - ChunkOverlap after the last.
RECURSIVE split_from(_, _)
split_from(text, start) ==
  IF start + ChunkSize >= Len(text)
  THEN << SubSeq(text, start + 1, Len(text)) >>
  ELSE << SubSeq(text, start + 1, start + ChunkSize) >>
         \o split_from(text, start + ChunkSize - ChunkOverlap)

split_text(text) == IF text = <<>> THEN <<>> ELSE split_from(text, 0)

NoResult == [text |-> <<>>, chunks |-> <<>>, total_chunks |-> 0]

\* '\n'.join(text_pages)
RECURSIVE JoinPages(_)
JoinPages(text_pages) ==
  IF text_pages = <<>> THEN <<>>
  ELSE IF Len(text_pages) = 1 THEN Head(text_pages)
  ELSE Head(text_pages) \o << "\n" >> \o JoinPages(Tail(text_pages))

\* [table.to_dict('records') for table in tables if not table.empty]
RECURSIVE NonEmptyTables(_)
NonEmptyTables(tables) ==
  IF tables = <<>> THEN <<>>
  ELSE IF Head(tables) = <<>> THEN NonEmptyTables(Tail(tables))
  ELSE << Head(tables) >> \o NonEmptyTables(Tail(tables))

\* A process_pdf whose table extraction is not guarded by its own try.
process_pdf_tables_fatal(content, ioFails, tablesFail) ==
  IF ioFails \/ ~content.valid \/ tablesFail
  THEN [ok |-> FALSE, error |-> "PDF processing failed", result |-> NoResult]
  ELSE [ok |-> TRUE, error |-> "none",
        result |-> [text |-> JoinPages(<< content.text >>),
                    chunks |-> split_text(JoinPages(<< content.text >>)),
                    tables |-> NonEmptyTables(content.tables),
                    page_count |-> Len(<< content.text >>),
                    total_chunks |-> Len(split_text(JoinPages(<< content.text >>)))]]

\* process_pdf: page texts joined, chunked; tables read under an inner try.
process_pdf(content, ioFails, tablesFail) ==
  IF ioFails \/ ~content.valid
  THEN [ok |-> FALSE, error |-> "PDF processing failed", result |-> NoResult]
  ELSE LET text_pages == << content.text >>
           full_text == JoinPages(text_pages)
           chunks == split_text(full_text)
           processed_tables == IF tablesFail THEN <<>>
                               ELSE NonEmptyTables(content.tables) IN
       [ok |-> TRUE, error |-> "none",
        result |-> [text |-> full_text,
                    chunks |-> chunks,
                    tables |-> processed_tables,
                    page_count |-> Len(text_pages),
                    total_chunks |-> Len(chunks)]]

process_image(content, ioFails) ==
  IF ioFails \/ ~content.valid
  THEN [ok |-> FALSE, error |-> "Image processing failed", result |-> NoResult]
  ELSE [ok |-> TRUE, error |-> "none",
        result |-> [text |-> content.text,
                    chunks |-> split_text(content.text),
                    total_chunks |-> Len(split_text(content.text))]]

\* A process_text that counts the characters of the text, not the chunks.
process_text_counts_text(content, ioFails) ==
  IF ioFails \/ ~content.valid
  THEN [ok |-> FALSE, error |-> "Text processing failed", result |-> NoResult]
  ELSE [ok |-> TRUE, error |-> "none",
        result |-> [text |-> content.text,
                    chunks |-> split_text(content.text),
                    total_chunks |-> Len(content.text)]]

process_text(content, ioFails) ==
  IF ioFails \/ ~content.valid
  THEN [ok |-> FALSE, error |-> "Text processing failed", result |-> NoResult]
  ELSE [ok |-> TRUE, error |-> "none",
        result |-> [text |-> content.text,
                    chunks |-> split_text(content.text),
                    total_chunks |-> Len(split_text(content.text))]]

\* A dispatch table that hands spreadsheets to the text extractor.
processor_table_with_excel ==
  [k \in {DocumentType.PDF, DocumentType.IMAGE, DocumentType.TEXT, DocumentType.EXCEL} |->
     CASE k = DocumentType.PDF   -> "process_pdf"
       [] k = DocumentType.IMAGE -> "process_image"
       [] OTHER                  -> "process_text"]

\* The dispatch table of process_document: Kind -> extractor.
processor_table ==
  [k \in {DocumentType.PDF, DocumentType.IMAGE, DocumentType.TEXT} |->
     CASE k = DocumentType.PDF   -> "process_pdf"
       [] k = DocumentType.IMAGE -> "process_image"
       [] OTHER                  -> "process_text"]

run_processor(name, content, ioFails, tablesFail) ==
  CASE name = "process_pdf"   -> process_pdf(content, ioFails, tablesFail)
    [] name = "process_image" -> process_image(content, ioFails)
    [] OTHER                  -> process_text(content, ioFails)

basename(path) == path[Len(path)]

\* process_document: detect, dispatch, extract, stamp.
\* stage: where it stopped; extractor: the extractor that ran ("none" if none).
process_document(path, content, fault) ==
  LET det == detect_document_type(path, content, fault = "read") IN
  IF ~det.ok
  THEN [ok |-> FALSE, stage |-> "detect", error |-> det.error, kind |-> "none",
        extractor |-> "none", result |-> NoResult,
        filename |-> "none", file_type |-> "none"]
  ELSE IF det.kind \notin DOMAIN processor_table
  THEN [ok |-> FALSE, stage |-> "dispatch", error |-> "Unsupported document type",
        kind |-> det.kind, extractor |-> "none", result |-> NoResult,
        filename |-> "none", file_type |-> "none"]
  ELSE LET name == processor_table[det.kind]
           ext == run_processor(name, content, fault = "extract", fault = "tables") IN
       IF ~ext.ok
       THEN [ok |-> FALSE, stage |-> "extract", error |-> ext.error,
             kind |-> det.kind, extractor |-> name, result |-> NoResult,
             filename |-> "none", file_type |-> "none"]
       ELSE [ok |-> TRUE, stage |-> "done", error |-> "none",
             kind |-> det.kind, extractor |-> name, result |-> ext.result,
             filename |-> basename(path), file_type |-> det.kind]

\* ------------------------------------------------------ backend/embedding
\* The sentence-embedding model: a deterministic map from a text to a
\* non-zero vector (which letters the text holds).
Embed(text) == << IF "a" \in Range(text) THEN 1 ELSE 0,
                  IF "b" \in Range(text) THEN 1 ELSE 0 >>

create_embeddings(texts, fails) ==
  IF fails
  THEN [ok |-> FALSE, error |-> "Embedding creation failed", vectors |-> <<>>]
  ELSE [ok |-> TRUE, error |-> "none",
        vectors |-> [i \in DOMAIN texts |-> Embed(texts[i])]]

\* Cosine distance of the collection ("hnsw:space": "cosine"), as the
\* order-preserving image 2 * (1 - cos^2) so that it stays an integer.
Dot(u, v) == u[1] * v[1] + u[2] * v[2]
Distance(u, v) == 2 - ((2 * Dot(u, v) * Dot(u, v)) \div (Dot(u, u) * Dot(v, v)))

StoreIds(s) == { s[i].id : i \in DOMAIN s }

RECURSIVE AppendNew(_, _)
AppendNew(s, recs) ==
  IF recs = <<>> THEN s
  ELSE AppendNew(IF Head(recs).id \in StoreIds(s) THEN s ELSE Append(s, Head(recs)),
                 Tail(recs))

\* An add that rejects a batch holding an id already stored.
collection_add_reject_existing(s, embeddings, documents, metadatas, ids, backendFails) ==
  IF \/ backendFails
     \/ ids = <<>>
     \/ Range(ids) \cap StoreIds(s) # {}
  THEN [ok |-> FALSE, store |-> s]
  ELSE [ok |-> TRUE,
        store |-> AppendNew(s, [i \in DOMAIN ids |->
                     [id |-> ids[i], embedding |-> embeddings[i],
                      document |-> documents[i], metadata |-> metadatas[i]]])]

\* An add whose backend failure strikes after the first record is written.
collection_add_partial(s, embeddings, documents, metadatas, ids, backendFails) ==
  IF ids = <<>> \/ Len(embeddings) # Len(ids) \/ Len(documents) # Len(ids)
     \/ Len(metadatas) # Len(ids)
  THEN [ok |-> FALSE, store |-> s]
  ELSE LET recs == [i \in DOMAIN ids |->
                     [id |-> ids[i], embedding |-> embeddings[i],
                      document |-> documents[i], metadata |-> metadatas[i]]] IN
       IF backendFails
       THEN [ok |-> FALSE, store |-> AppendNew(s, << recs[1] >>)]
       ELSE [ok |-> TRUE, store |-> AppendNew(s, recs)]

\* collection.add of the vector store (a chromadb PersistentClient
\* collection): validates the batch, then inserts the records whose id is
\* new; a record whose id is already stored is left as it is, without an
\* error.  A backend failure raises with nothing written.
collection_add(s, embeddings, documents, metadatas, ids, backendFails) ==
  IF \/ backendFails
     \/ ids = <<>>
     \/ Len(embeddings) # Len(ids)
     \/ Len(documents) # Len(ids)
     \/ Len(metadatas) # Len(ids)
     \/ Cardinality(Range(ids)) # Len(ids)
  THEN [ok |-> FALSE, store |-> s]
  ELSE [ok |-> TRUE,
        store |-> AppendNew(s, [i \in DOMAIN ids |->
                     [id |-> ids[i], embedding |-> embeddings[i],
                      document |-> documents[i], metadata |-> metadatas[i]]])]

NoMetadata == [filename |-> "none", file_type |-> "none", chunk_index |-> -1]

\* Ids numbered from one where the chunk list is numbered from zero.
chunk_id_one_based(unique_id, i) == unique_id \o << "chunk", i + 1 >>

\* f"{unique_id}_chunk_{i}", or f"chunk_{i}" without a unique_id
chunk_id(unique_id, i) == unique_id \o << "chunk", i >>

\* store_embeddings(texts, embeddings, metadatas, unique_id)
store_embeddings(s, texts, embeddings, metadatas, unique_id, embedFails, addFails) ==
  LET emb == IF embeddings # <<>>
             THEN [ok |-> TRUE, error |-> "none", vectors |-> embeddings]
             ELSE create_embeddings(texts, embedFails) IN
  IF ~emb.ok
  THEN [ok |-> FALSE, stage |-> "embed", error |-> "Embedding storage failed", store |-> s]
  ELSE LET metas == IF metadatas # <<>> THEN metadatas
                    ELSE [i \in DOMAIN texts |-> NoMetadata]
           ids == [i \in DOMAIN texts |-> chunk_id(unique_id, i - 1)]
           add == collection_add(s, emb.vectors, texts, metas, ids, addFails) IN
       IF ~add.ok
       THEN [ok |-> FALSE, stage |-> "add", error |-> "Embedding storage failed",
             store |-> add.store]
       ELSE [ok |-> TRUE, stage |-> "done", error |-> "none", store |-> add.store]

\* A selection that ignores the distance: insertion order only.
MinIndex_insertion(s, q, idxs) == CHOOSE i \in idxs : \A j \in idxs : i <= j

\* Indices of s by non-decreasing distance to q, insertion order among equals.
MinIndex(s, q, idxs) ==
  CHOOSE i \in idxs : \A j \in idxs :
     \/ Distance(s[i].embedding, q) < Distance(s[j].embedding, q)
     \/ /\ Distance(s[i].embedding, q) = Distance(s[j].embedding, q)
        /\ i <= j

RECURSIVE Nearest(_, _, _, _)
Nearest(s, q, idxs, k) ==
  IF k = 0 \/ idxs = {} THEN <<>>
  ELSE LET i == MinIndex(s, q, idxs) IN
       << i >> \o Nearest(s, q, idxs \ {i}, k - 1)

\* collection.query: the n_results nearest records, fewer if the collection
\* holds fewer; n_results <= 0 is rejected.
collection_query(s, q, n_results) ==
  IF n_results <= 0
  THEN [ok |-> FALSE, hits |-> <<>>]
  ELSE [ok |-> TRUE, hits |-> Nearest(s, q, DOMAIN s, n_results)]

\* search_embeddings(query, top_k)
search_embeddings(s, query, top_k, embedFails) ==
  LET emb == create_embeddings(<< query >>, embedFails) IN
  IF ~emb.ok
  THEN [ok |-> FALSE, error |-> "Embedding search failed", results |-> <<>>]
  ELSE LET res == collection_query(s, emb.vectors[1], top_k) IN
       IF ~res.ok
       THEN [ok |-> FALSE, error |-> "Embedding search failed", results |-> <<>>]
       ELSE [ok |-> TRUE, error |-> "none",
             results |-> [n \in DOMAIN res.hits |->
                [text |-> s[res.hits[n]].document,
                 distance |-> Distance(s[res.hits[n]].embedding, emb.vectors[1]),
                 metadata |-> s[res.hits[n]].metadata]]]

\* ---------------------------------------------------------- backend/model
RECURSIVE JoinTexts(_)
JoinTexts(context) ==
  IF context = <<>> THEN <<>>
  ELSE IF Len(context) = 1 THEN Head(context).text
  ELSE Head(context).text \o << "\n\n" >> \o JoinTexts(Tail(context))

\* The try block of generate_answer: build the context, compose the chain,
\* invoke the model.
rag_chain_invoke(query, context, fault) ==
  IF fault # "none"
  THEN [raised |-> TRUE, exc |-> fault, value |-> <<>>]
  ELSE [raised |-> FALSE, exc |-> "none",
        value |-> << "answer" >> \o query \o << "context" >> \o JoinTexts(context)]

\* A generate_answer without its except clause.
generate_answer_reraise(query, context, fault) == rag_chain_invoke(query, context, fault)

\* generate_answer(query, context): the except clause turns every exception
\* of the try block into the returned string.
generate_answer(query, context, fault) ==
  LET body == rag_chain_invoke(query, context, fault) IN
  IF body.raised
  THEN [raised |-> FALSE, exc |-> "none",
        value |-> << "Error generating answer: ", body.exc >>]
  ELSE body

\* ----------------------------------------------------------- backend/main
temp_path_of(filename) == << document_storage_path, filename >>

Sha256(content) == HashHex[CHOOSE i \in DOMAIN ContentTable : ContentTable[i] = content]

unique_id_of(filename, content) == << filename, Sha256(content) >>

\* An ingestion end that leaves the temporary file behind.
remove_temp_missing(d, temp_path) == d

\* finally: if os.path.exists(temp_path): os.remove(temp_path)
remove_temp(d, temp_path) == IF temp_path \in d THEN d \ {temp_path} ELSE d

\* An ingestion without the test for an empty chunk list.
process_document_async_unchecked(filename, content, fault, s, d) ==
  LET temp_path == temp_path_of(filename)
      wrote == fault # "write"
      d1 == IF wrote THEN d \cup {temp_path} ELSE d
      doc == IF wrote THEN process_document(temp_path, content, fault)
             ELSE [ok |-> FALSE, stage |-> "write", error |-> "cannot write",
                   kind |-> "none", extractor |-> "none", result |-> NoResult,
                   filename |-> "none", file_type |-> "none"]
      chunks == doc.result.chunks
      unique_id == unique_id_of(filename, content)
      metadatas == [i \in DOMAIN chunks |->
                      [filename |-> filename, file_type |-> doc.file_type,
                       chunk_index |-> i - 1]]
      st == store_embeddings(s, chunks, <<>>, metadatas, unique_id,
                             fault = "embed", fault = "add")
      failed == [outcome |-> "failed", status_code |-> StatusError, store |-> s,
                 disk |-> remove_temp(d1, temp_path), wrote |-> temp_path \in d1,
                 doc |-> doc, unique_id |-> <<>>,
                 called_store |-> FALSE, stage |-> doc.stage]
  IN
  IF ~doc.ok THEN failed
  ELSE IF ~st.ok
  THEN [failed EXCEPT !.stage = st.stage, !.unique_id = unique_id,
                      !.called_store = TRUE, !.store = st.store]
  ELSE [outcome |-> "success", status_code |-> 0, store |-> st.store,
        disk |-> remove_temp(d1, temp_path), wrote |-> temp_path \in d1,
        doc |-> doc, unique_id |-> unique_id,
        called_store |-> TRUE, stage |-> "done"]

\* process_document_async(filename, content) on store s and disk d.
process_document_async(filename, content, fault, s, d) ==
  LET temp_path == temp_path_of(filename)
      wrote == fault # "write"
      d1 == IF wrote THEN d \cup {temp_path} ELSE d
      doc == IF wrote THEN process_document(temp_path, content, fault)
             ELSE [ok |-> FALSE, stage |-> "write", error |-> "cannot write",
                   kind |-> "none", extractor |-> "none", result |-> NoResult,
                   filename |-> "none", file_type |-> "none"]
      chunks == doc.result.chunks
      unique_id == unique_id_of(filename, content)
      metadatas == [i \in DOMAIN chunks |->
                      [filename |-> filename, file_type |-> doc.file_type,
                       chunk_index |-> i - 1]]
      st == store_embeddings(s, chunks, <<>>, metadatas, unique_id,
                             fault = "embed", fault = "add")
      failed == [outcome |-> "failed", status_code |-> StatusError, store |-> s,
                 disk |-> remove_temp(d1, temp_path), wrote |-> temp_path \in d1,
                 doc |-> doc, unique_id |-> <<>>,
                 called_store |-> FALSE, stage |-> doc.stage]
  IN
  IF ~doc.ok THEN failed
  ELSE IF chunks = <<>> THEN [failed EXCEPT !.stage = "no_chunks"]
  ELSE IF ~st.ok
  THEN [failed EXCEPT !.stage = st.stage, !.unique_id = unique_id,
                      !.called_store = TRUE, !.store = st.store]
  ELSE [outcome |-> "success", status_code |-> 0, store |-> st.store,
        disk |-> remove_temp(d1, temp_path), wrote |-> temp_path \in d1,
        doc |-> doc, unique_id |-> unique_id,
        called_store |-> TRUE, stage |-> "done"]

\* ------------------------------------------------------------------ state
\* store:    the collection, its records in insertion order
\* disk:     paths of the files under document_storage_path
\* pending:  background task lists of answered uploads, not yet started
\* running:  the rest of the background task list now running
\* queued:   number of files queued so far
\* direct:   number of direct store_embeddings calls so far
\* ingested: the documents whose ingestion succeeded, with their identity
\* last:     the latest operation, its inputs and what it returned
VARIABLES store, disk, pending, running, queued, direct, ingested, last

vars == << store, disk, pending, running, queued, direct, ingested, last >>

\* Uploaded files: a name and a payload; names and payloads disagree freely.
Files ==
  { [filename |-> "a.txt", content |-> ContentTable[1]],
    [filename |-> "b.pdf", content |-> ContentTable[1]],
    [filename |-> "a.txt", content |-> ContentTable[2]],
    [filename |-> "b.pdf", content |-> ContentTable[3]],
    [filename |-> "a.txt", content |-> ContentTable[4]],
    [filename |-> "b.pdf", content |-> ContentTable[5]],
    [filename |-> "a.txt", content |-> ContentTable[6]] }

RECURSIVE SeqsUpTo(_, _)
SeqsUpTo(S, n) ==
  IF n = 0 THEN { <<>> }
  ELSE LET shorter == SeqsUpTo(S, n - 1) IN
       shorter \cup { Append(q, x) : q \in { r \in shorter : Len(r) = n - 1 }, x \in S }

Init ==
  /\ store = <<>>
  /\ disk = {}
  /\ pending = <<>>
  /\ running = <<>>
  /\ queued = 0
  /\ direct = 0
  /\ ingested = {}
  /\ last = [op |-> "init"]

RemoveAt(q, i) == SubSeq(q, 1, i - 1) \o SubSeq(q, i + 1, Len(q))

\* POST /upload/batch: queue one background task per file, answer "queued".
batch_upload(files) ==
  /\ running = <<>>
  /\ files # <<>>
  /\ queued + Len(files) <= MaxTasks
  /\ pending' = Append(pending,
                  [i \in DOMAIN files |->
                     [filename |-> files[i].filename, content |-> files[i].content,
                      status |-> "queued"]])
  /\ queued' = queued + Len(files)
  /\ last' = [op |-> "batch_upload", status_code |-> StatusOk,
              message |-> "Documents queued for processing",
              results |-> [i \in DOMAIN files |->
                             [filename |-> files[i].filename, status |-> "queued"]]]
  /\ UNCHANGED << store, disk, running, direct, ingested >>

\* The response of an upload has been sent: its background tasks start.
\* They run in order on the event loop, with no other handler in between.
start_background(b) ==
  /\ running = <<>>
  /\ b \in DOMAIN pending
  /\ running' = pending[b]
  /\ pending' = RemoveAt(pending, b)
  /\ last' = [op |-> "start_background", tasks |-> Len(pending[b])]
  /\ UNCHANGED << store, disk, queued, direct, ingested >>

\* One background task: process_document_async(filename, content).  When it
\* raises, the exception leaves the task loop and the rest is not run.
run_task(fault) ==
  /\ running # <<>>
  /\ LET task == Head(running)
         r == process_document_async(task.filename, task.content, fault, store, disk) IN
     /\ store' = r.store
     /\ disk' = r.disk
     /\ running' = IF r.outcome = "success" THEN Tail(running) ELSE <<>>
     /\ ingested' = IF r.outcome = "success"
                    THEN ingested \cup {[filename |-> task.filename,
                                         content |-> task.content,
                                         unique_id |-> r.unique_id,
                                         total_chunks |-> r.doc.result.total_chunks]}
                    ELSE ingested
     /\ last' = [op |-> "process", filename |-> task.filename,
                 content |-> task.content, fault |-> fault,
                 known |-> \E e \in ingested : /\ e.filename = task.filename
                                                /\ e.content = task.content,
                 reported |-> task.status, outcome |-> r.outcome,
                 wrote |-> r.wrote,
                 status_code |-> r.status_code, stage |-> r.stage,
                 kind |-> r.doc.kind, extractor |-> r.doc.extractor,
                 doc_ok |-> r.doc.ok, doc_error |-> r.doc.error,
                 result |-> r.doc.result,
                 result_filename |-> r.doc.filename, file_type |-> r.doc.file_type,
                 unique_id |-> r.unique_id, called_store |-> r.called_store,
                 skipped |-> IF r.outcome = "success" THEN 0 ELSE Len(running) - 1]
  /\ UNCHANGED << pending, queued, direct >>

\* POST /ask
ask_question(query, searchFails, genFault) ==
  /\ running = <<>>
  /\ LET context == search_embeddings(store, query, DefaultTopK, searchFails)
         answer == generate_answer(query, context.results, genFault) IN
     last' = IF ~context.ok \/ answer.raised
             THEN [op |-> "ask", query |-> query, searchFails |-> searchFails,
                   genFault |-> genFault, status_code |-> StatusError,
                   answer |-> <<>>, sources |-> <<>>]
             ELSE [op |-> "ask", query |-> query, searchFails |-> searchFails,
                   genFault |-> genFault, status_code |-> StatusOk,
                   answer |-> answer.value, sources |-> context.results]
  /\ UNCHANGED << store, disk, pending, running, queued, direct, ingested >>

\* A direct call of EmbeddingService.store_embeddings.
call_store_embeddings(texts, embeddings, unique_id, embedFails, addFails) ==
  /\ running = <<>>
  /\ direct < MaxDirect
  /\ LET r == store_embeddings(store, texts, embeddings, <<>>, unique_id,
                               embedFails, addFails) IN
     /\ store' = r.store
     /\ last' = [op |-> "store", texts |-> texts, embeddings |-> embeddings,
                 unique_id |-> unique_id, embedFails |-> embedFails,
                 addFails |-> addFails, ok |-> r.ok, stage |-> r.stage]
  /\ direct' = direct + 1
  /\ UNCHANGED << disk, pending, running, queued, ingested >>

\* A direct call of EmbeddingService.search_embeddings.
call_search_embeddings(query, top_k, embedFails) ==
  /\ running = <<>>
  /\ LET r == search_embeddings(store, query, top_k, embedFails) IN
     last' = [op |-> "search", query |-> query, top_k |-> top_k,
              embedFails |-> embedFails, ok |-> r.ok, results |-> r.results]
  /\ UNCHANGED << store, disk, pending, running, queued, direct, ingested >>

Next ==
  \/ \E files \in SeqsUpTo(Files, MaxTasks - queued) : batch_upload(files)
  \/ \E b \in 1..MaxTasks : start_background(b)
  \/ \E fault \in IngestFaults : run_task(fault)
  \/ \E query \in Queries, searchFails \in BOOLEAN, genFault \in GenFaults :
        ask_question(query, searchFails, genFault)

Spec == Init /\ [][Next]_vars

\* The embedding service used on its own, as a library.
NextService ==
  \/ \E texts \in SeqsUpTo(ChunkTexts, 2), embeddings \in {<<>>, << <<1, 0>> >>},
        unique_id \in UniqueIds, embedFails \in BOOLEAN, addFails \in BOOLEAN :
        call_store_embeddings(texts, embeddings, unique_id, embedFails, addFails)
  \/ \E query \in Queries, top_k \in 0..MaxTopK, embedFails \in BOOLEAN :
        call_search_embeddings(query, top_k, embedFails)

SpecService == Init /\ [][NextService]_vars

\* =================================================================== claims
Min(a, b) == IF a <= b THEN a ELSE b

RecordsWithId(id) == { i \in DOMAIN store : store[i].id = id }

IsProcess == last.op = "process"

RegisteredKinds == {"pdf", "image", "text"}

SpreadsheetMime == "application/vnd.openxmlformats-officedocument.spreadsheetml.sheet"

\* C1: after a successful store_embeddings, every id it wrote is held by
\* exactly one record, and that record's text and vector are those of this
\* latest write, also when the id was already in the store.
C1_OverwriteOnDuplicateId ==
  (last.op = "store" /\ last.ok) =>
     \A i \in DOMAIN last.texts :
        LET id == last.unique_id \o << "chunk", i - 1 >> IN
        /\ Cardinality(RecordsWithId(id)) = 1
        /\ \A j \in RecordsWithId(id) :
              /\ store[j].document = last.texts[i]
              /\ store[j].embedding = (IF last.embeddings # <<>>
                                       THEN last.embeddings[i]
                                       ELSE Embed(last.texts[i]))

\* C2: ingesting again a document (same filename, same bytes) whose ingestion
\* already succeeded derives the same unique_id, succeeds, and leaves the
\* stored records exactly as they were.
C2_ReingestIdempotent ==
  [][ (running # <<>> /\ last'.op = "process" /\ last'.fault = "none" /\ last'.known)
      => /\ last'.outcome = "success"
         /\ store' = store
         /\ \A e \in ingested :
               (e.filename = last'.filename /\ e.content = last'.content)
                  => e.unique_id = last'.unique_id
         /\ \A i \in DOMAIN last'.result.chunks :
               Cardinality({ j \in DOMAIN store' :
                   store'[j].id = last'.unique_id \o << "chunk", i - 1 >> }) = 1 ]_vars

C2_Witness ==
  /\ IsProcess /\ last.known /\ last.fault = "none" /\ last.outcome = "success"
  /\ Len(store) = Len(last.result.chunks)
  /\ Len(store) > 1

\* C3: an ingestion that fails, at whatever stage, leaves the vector store
\* exactly as it was before the ingestion started.
C3_FailedIngestionLeavesStore ==
  [][ (running # <<>> /\ last'.op = "process" /\ last'.outcome = "failed")
      => store' = store ]_vars

C3_Witness ==
  /\ IsProcess /\ last.outcome = "failed" /\ last.stage = "add"
  /\ store # <<>>
  /\ ~last.known

\* C4: an ingestion whose extraction succeeds with zero chunks fails at the
\* chunk test, before an id is computed or store_embeddings is called, and
\* the vector store is unchanged.
C4_ZeroChunksIsFailure ==
  [][ (running # <<>> /\ last'.op = "process" /\ last'.doc_ok
         /\ last'.result.chunks = <<>>)
      => /\ last'.outcome = "failed"
         /\ last'.stage = "no_chunks"
         /\ last'.unique_id = <<>>
         /\ ~last'.called_store
         /\ store' = store ]_vars

C4_Witness ==
  /\ IsProcess /\ last.doc_ok /\ last.result.chunks = <<>>
  /\ last.kind = "image" /\ last.stage = "no_chunks"

\* C5: /ask fails exactly when the retrieval step fails; a failure while
\* building the context, composing the prompt or invoking the model comes
\* back as a successful response whose answer is the error string, together
\* with the retrieved sources.
C5_AnswerNeverRaises ==
  (last.op = "ask") =>
     /\ (last.status_code = StatusError) <=> last.searchFails
     /\ ~last.searchFails =>
          /\ last.status_code = StatusOk
          /\ last.answer # <<>>
          /\ (last.genFault # "none") =>
                last.answer = << "Error generating answer: ", last.genFault >>
          /\ (last.genFault = "none") => Head(last.answer) = "answer"
          /\ Len(last.sources) = Min(DefaultTopK, Len(store))

C5_Witness ==
  /\ last.op = "ask" /\ last.genFault = "llm" /\ ~last.searchFails
  /\ last.status_code = StatusOk
  /\ last.sources # <<>>

\* C6: a search with top_k > 0 whose query embedding succeeds returns exactly
\* min(top_k, number of stored records) results in non-decreasing distance;
\* on an empty store it returns the empty sequence without an error.
C6_SearchBoundedSorted ==
  (last.op = "search" /\ last.top_k > 0 /\ ~last.embedFails) =>
     /\ last.ok
     /\ Len(last.results) = Min(last.top_k, Len(store))
     /\ \A n \in 1..(Len(last.results) - 1) :
           last.results[n].distance <= last.results[n + 1].distance
     /\ (store = <<>>) => (last.results = <<>>)

C6_Witness ==
  /\ last.op = "search" /\ last.ok
  /\ Len(store) > last.top_k
  /\ Len(last.results) = 2
  /\ last.results[1].distance < last.results[2].distance
  /\ last.results[1].text # store[1].document

\* C7: the outcome the caller receives for a document is that document's
\* actual ingestion result (success or failed), not an HTTP status code.
C7_ReportsOutcome ==
  IsProcess => (last.reported = last.outcome /\ last.status_code = 0)

\* C8: a detected Kind without a registered extractor fails with the
\* unsupported-type error before any extractor runs and yields no result; a
\* registered Kind runs its extractor, and a successful result is stamped
\* with the file's base name and the Kind's value.
C8_Dispatch ==
  (IsProcess /\ last.stage \notin {"write", "detect"}) =>
     /\ (last.kind \notin RegisteredKinds) =>
          /\ ~last.doc_ok
          /\ last.stage = "dispatch"
          /\ last.doc_error = "Unsupported document type"
          /\ last.extractor = "none"
          /\ last.result = NoResult
     /\ (last.kind \in RegisteredKinds) =>
          last.extractor = (CASE last.kind = "pdf" -> "process_pdf"
                              [] last.kind = "image" -> "process_image"
                              [] OTHER -> "process_text")
     /\ last.doc_ok =>
          /\ last.result_filename = last.filename
          /\ last.file_type = last.kind

C8_Witness ==
  /\ IsProcess /\ last.kind = "excel" /\ last.stage = "dispatch"
  /\ last.extractor = "none"

\* C9 as stated: a document detected as Spreadsheet is handed to the text
\* extractor and fails there with the extraction error when it does not decode.
C9_SpreadsheetRoutedToText ==
  (IsProcess /\ last.kind = "excel") =>
     /\ last.extractor = "process_text"
     /\ (~last.content.valid) => last.doc_error = "Text processing failed"

\* C9 amended: a document whose content is detected as Spreadsheet has no
\* extractor in the dispatch table: processing it fails with the
\* unsupported-type error and no extractor, the text extractor included, runs.
C9_SpreadsheetUnsupported ==
  (IsProcess /\ last.content.mime = SpreadsheetMime
     /\ last.stage \notin {"write", "detect"}) =>
     /\ last.kind = "excel"
     /\ last.extractor = "none"
     /\ last.doc_error = "Unsupported document type"
     /\ last.outcome = "failed"

C9_Witness ==
  /\ IsProcess /\ last.content.mime = SpreadsheetMime
  /\ last.fault = "none" /\ last.doc_error = "Unsupported document type"

\* C10: detection maps a signature of the table to its Kind whatever the file
\* name, maps every other signature to Text, and fails with the detection
\* error exactly when the content cannot be read.
C10_DetectionTotal ==
  (IsProcess /\ last.stage # "write") =>
     /\ (last.stage = "detect") <=> (last.fault = "read")
     /\ (last.stage = "detect") =>
           last.doc_error = "Failed to detect document type"
     /\ (last.fault # "read") =>
           last.kind = (CASE last.content.mime = "application/pdf" -> "pdf"
                          [] last.content.mime \in {"image/png", "image/jpeg"} -> "image"
                          [] last.content.mime = "text/plain" -> "text"
                          [] last.content.mime = SpreadsheetMime -> "excel"
                          [] OTHER -> "text")

C10_Witness ==
  /\ IsProcess /\ last.content.mime = "application/pdf"
  /\ last.filename = "a.txt" /\ last.kind = "pdf"

\* C11: when table extraction raises, process_pdf still succeeds with the
\* text, chunks, page_count and total_chunks it yields when table extraction
\* works, and with an empty tables list; a failure of page text extraction
\* aborts it with the PDF extraction error.
C11_TablesBestEffort ==
  (IsProcess /\ last.extractor = "process_pdf") =>
     /\ (last.fault = "tables" /\ last.content.valid) =>
          LET good == process_pdf(last.content, FALSE, FALSE).result IN
          /\ last.doc_ok
          /\ last.result.tables = <<>>
          /\ last.result.text = good.text
          /\ last.result.chunks = good.chunks
          /\ last.result.page_count = good.page_count
          /\ last.result.total_chunks = good.total_chunks
          /\ last.outcome = "success"
     /\ (last.fault = "extract") =>
          /\ ~last.doc_ok
          /\ last.stage = "extract"
          /\ last.doc_error = "PDF processing failed"

C11_Witness ==
  /\ IsProcess /\ last.extractor = "process_pdf" /\ last.fault = "tables"
  /\ last.doc_ok /\ last.result.tables = <<>>
  /\ process_pdf(last.content, FALSE, FALSE).result.tables # <<>>
  /\ last.result.chunks # <<>>

\* C12: after a successful ingestion, for every position i of the chunk
\* sequence the one record with id '{unique_id}_chunk_{i}' holds the text of
\* chunk i and chunk_index = i, and the records follow each other in the
\* store in the order of their chunks.
C12_ChunkOrderPreserved ==
  (IsProcess /\ last.outcome = "success") =>
     /\ \A i \in DOMAIN last.result.chunks :
          LET id == last.unique_id \o << "chunk", i - 1 >> IN
          /\ Cardinality(RecordsWithId(id)) = 1
          /\ \A j \in RecordsWithId(id) :
                /\ store[j].document = last.result.chunks[i]
                /\ store[j].metadata.chunk_index = i - 1
                /\ store[j].metadata.filename = last.filename
     /\ \A i1, i2 \in DOMAIN last.result.chunks :
          (i1 < i2) =>
             \A j1 \in RecordsWithId(last.unique_id \o << "chunk", i1 - 1 >>),
                j2 \in RecordsWithId(last.unique_id \o << "chunk", i2 - 1 >>) :
                /\ j1 < j2
                /\ store[j1].metadata.chunk_index < store[j2].metadata.chunk_index

C12_Witness ==
  /\ IsProcess /\ last.outcome = "success"
  /\ Len(last.result.chunks) = 2
  /\ last.result.chunks[1] # last.result.chunks[2]
  /\ Len(store) > 2

\* C13: every result process_document returns, whichever extractor made it
\* and also for an empty text, has total_chunks equal to the length of chunks.
C13_TotalChunksIsLength ==
  (IsProcess /\ last.doc_ok) =>
     /\ last.extractor \in {"process_pdf", "process_image", "process_text"}
     /\ last.result.total_chunks = Len(last.result.chunks)
     /\ (last.result.text = <<>>) => (last.result.total_chunks = 0)

C13_Witness ==
  /\ IsProcess /\ last.doc_ok /\ last.extractor = "process_text"
  /\ last.result.total_chunks = 2
  /\ Len(last.result.text) = 4

\* C14: the failure of one document of a batch does not keep the documents
\* queued after it from being processed: whatever the outcome of a task, the
\* tasks queued behind it in the same batch stay due.
C14_BatchContinuesAfterFailure ==
  [][ (running # <<>> /\ last'.op = "process") => running' = Tail(running) ]_vars

\* C15: when process_document_async has finished, with success or with a
\* failure at any stage, the temporary file it wrote under
\* document_storage_path is gone, so no temporary file is left between
\* ingestions.
C15_TempFileRemoved ==
  /\ IsProcess => (temp_path_of(last.filename) \notin disk)
  /\ disk = {}

C15_Witness ==
  /\ IsProcess /\ last.wrote /\ last.outcome = "failed"
  /\ temp_path_of(last.filename) \notin disk
  /\ ingested # {}

====
